---- MODULE Spec2Model ----
(***************************************************************************)
(* csgocfg: the line parser (src/parser.rs), the statement data model      *)
(* (src/config.rs) and the patch merge (src/lib.rs).                       *)
(*                                                                         *)
(* A Rust &str is modelled as the sequence of its UTF-8 bytes.  A byte is  *)
(* written as a one-character string; "C3" and "A9" are the lead and the    *)
(* continuation byte of the two-byte alphabetic character U+00E9.  Byte    *)
(* offsets are 0-based as in Rust; a slice at an offset that is not a char *)
(* boundary, or past the end, panics.                                      *)
(***************************************************************************)
EXTENDS Integers, Sequences, FiniteSets, TLC

VARIABLES
    line, toks, state, cfg_result,
    target_file, patch_file, target_before, mpc, rest_lines, patch_lookup, new_contents,
    ca, cb, r_eq, r_cmp, r_pcmp, r_hash

parse_vars == <<line, toks, state, cfg_result>>
merge_vars ==
    <<target_file, patch_file, target_before, mpc, rest_lines, patch_lookup, new_contents>>
cmp_vars == <<ca, cb, r_eq, r_cmp, r_pcmp, r_hash>>
vars == <<parse_vars, merge_vars, cmp_vars>>

(***************************************************************************)
(* Bounds of the model.                                                    *)
(***************************************************************************)
MaxChars == 4
MaxSpaces == 2
MaxTargetLines == 2
MaxPatchLines == 2

(***************************************************************************)
(* Bytes, characters and string slices.                                    *)
(***************************************************************************)
Quote == "\""
Space == " "
Slash == "/"
Newline == "\n"
Lead2 == "C3"
Cont2 == "A9"

\* u8 value of each byte the model uses (str's Ord compares bytes).
ByteVal(b) ==
    CASE b = Newline -> 10
      [] b = Space -> 32
      [] b = Quote -> 34
      [] b = "/" -> 47
      [] b = "0" -> 48
      [] b = "1" -> 49
      [] b = "2" -> 50
      [] b = "@" -> 64
      [] b = "_" -> 95
      [] b = "a" -> 97
      [] b = "b" -> 98
      [] b = "c" -> 99
      [] b = "d" -> 100
      [] b = "i" -> 105
      [] b = "j" -> 106
      [] b = "k" -> 107
      [] b = "n" -> 110
      [] b = "v" -> 118
      [] b = "x" -> 120
      [] b = "y" -> 121
      [] b = Cont2 -> 169
      [] b = Lead2 -> 195

\* char::is_alphabetic, by the first byte of the character.
IsAlphabetic(c) == c \in {"a", "b", "c", "d", "i", "j", "k", "n", "v", "x", "y", Lead2}

\* char::is_alphanumeric
IsAlphanumeric(c) == IsAlphabetic(c) \/ c \in {"0", "1", "2"}

\* char::len_utf8 of the character whose first byte is c.
LenUtf8(c) == IF c = Lead2 THEN 2 ELSE 1

\* str::is_char_boundary
IsCharBoundary(s, i) ==
    \/ i = 0
    \/ i = Len(s)
    \/ (0 < i /\ i < Len(s) /\ s[i + 1] # Cont2)

\* &s[from..to] does not panic.
SliceOk(s, from, to) ==
    from <= to /\ to <= Len(s) /\ IsCharBoundary(s, from) /\ IsCharBoundary(s, to)

\* &s[from..to], for offsets that do not panic.
Slice(s, from, to) == SubSeq(s, from + 1, to)

\* str::starts_with
StartsWith(s, p) == Len(p) <= Len(s) /\ SubSeq(s, 1, Len(p)) = p

\* str::find of a one-byte pattern: the 0-based offset, or -1 for None.
RECURSIVE FindFrom(_, _, _)
FindFrom(s, b, i) ==
    IF i >= Len(s) THEN -1
    ELSE IF s[i + 1] = b THEN i
    ELSE FindFrom(s, b, i + 1)

Find(s, b) == FindFrom(s, b, 0)

(***************************************************************************)
(* src/config.rs: ConfigItem.                                              *)
(***************************************************************************)
Command(cmd) == <<"Command", cmd>>
Bind(k, b) == <<"Bind", k, b>>
Cvar(cvar, val) == <<"Cvar", cvar, val>>

BindWord == <<"b", "i", "n", "d">>

\* write_string with a fault: the value of a Cvar is written without quotes.
WriteStringUnquoted(item) ==
    CASE item[1] = "Command" -> item[2] \o <<Newline>>
      [] item[1] = "Bind" ->
            BindWord \o <<Space, Quote>> \o item[2] \o <<Quote, Space, Quote>>
                \o item[3] \o <<Quote, Newline>>
      [] item[1] = "Cvar" -> item[2] \o <<Space>> \o item[3] \o <<Newline>>

\* ConfigItem::write_string: the bytes writeln! emits.
WriteString(item) ==
    CASE item[1] = "Command" -> item[2] \o <<Newline>>
      [] item[1] = "Bind" ->
            BindWord \o <<Space, Quote>> \o item[2] \o <<Quote, Space, Quote>>
                \o item[3] \o <<Quote, Newline>>
      [] item[1] = "Cvar" ->
            item[2] \o <<Space, Quote>> \o item[3] \o <<Quote, Newline>>

\* <str as Ord>::cmp: lexicographic on the bytes.
RECURSIVE StrCmp(_, _)
StrCmp(a, b) ==
    IF a = <<>> /\ b = <<>> THEN "Equal"
    ELSE IF a = <<>> THEN "Less"
    ELSE IF b = <<>> THEN "Greater"
    ELSE IF ByteVal(a[1]) < ByteVal(b[1]) THEN "Less"
    ELSE IF ByteVal(a[1]) > ByteVal(b[1]) THEN "Greater"
    ELSE StrCmp(Tail(a), Tail(b))

\* <ConfigItem as PartialEq>::eq
Eq(a, b) ==
    CASE a[1] = "Command" /\ b[1] = "Command" -> a[2] = b[2]
      [] a[1] = "Bind" /\ b[1] = "Bind" -> a[2] = b[2]
      [] a[1] = "Cvar" /\ b[1] = "Cvar" -> a[2] = b[2]
      [] OTHER -> FALSE

\* <ConfigItem as Ord>::cmp
Cmp(a, b) ==
    CASE a[1] = "Command" /\ b[1] = "Command" -> StrCmp(a[2], b[2])
      [] a[1] = "Bind" /\ b[1] = "Bind" -> StrCmp(a[2], b[2])
      [] a[1] = "Cvar" /\ b[1] = "Cvar" -> StrCmp(a[2], b[2])
      [] a[1] = "Command" /\ b[1] # "Command" -> "Less"
      [] a[1] = "Bind" /\ b[1] = "Command" -> "Greater"
      [] a[1] = "Bind" /\ b[1] = "Cvar" -> "Less"
      [] a[1] = "Cvar" /\ b[1] # "Cvar" -> "Greater"

\* <ConfigItem as PartialOrd>::partial_cmp: Some of the same match.
PartialCmp(a, b) ==
    CASE a[1] = "Command" /\ b[1] = "Command" -> <<"Some", StrCmp(a[2], b[2])>>
      [] a[1] = "Bind" /\ b[1] = "Bind" -> <<"Some", StrCmp(a[2], b[2])>>
      [] a[1] = "Cvar" /\ b[1] = "Cvar" -> <<"Some", StrCmp(a[2], b[2])>>
      [] a[1] = "Command" /\ b[1] # "Command" -> <<"Some", "Less">>
      [] a[1] = "Bind" /\ b[1] = "Command" -> <<"Some", "Greater">>
      [] a[1] = "Bind" /\ b[1] = "Cvar" -> <<"Some", "Less">>
      [] a[1] = "Cvar" /\ b[1] # "Cvar" -> <<"Some", "Greater">>

\* <str as Hash>::hash: the bytes, then the byte 0xFF.
StrHash(x) == x \o <<"FF">>

\* <ConfigItem as Hash>::hash: the bytes fed to the hasher.
Hash(item) ==
    CASE item[1] = "Command" -> StrHash(item[2])
      [] item[1] = "Bind" -> StrHash(item[2]) \o StrHash(item[3])
      [] item[1] = "Cvar" -> StrHash(item[2]) \o StrHash(item[3])

(***************************************************************************)
(* src/parser.rs: the parser combinators.  A ParseResult is                *)
(* [ok |-> TRUE, rest, out] or [ok |-> FALSE, rest] (Err(input)).          *)
(***************************************************************************)
POk(rest, out) == [ok |-> TRUE, panic |-> FALSE, rest |-> rest, out |-> out]
PErr(input) == [ok |-> FALSE, panic |-> FALSE, rest |-> input, out |-> <<>>]
PPanic == [ok |-> FALSE, panic |-> TRUE, rest |-> <<>>, out |-> <<>>]

\* match_literal(expected).parse(input)
MatchLiteral(expected, input) ==
    IF StartsWith(input, expected)
    THEN POk(Slice(input, Len(expected), Len(input)), <<>>)
    ELSE PErr(input)

\* match_space
MatchSpace(input) == MatchLiteral(<<Space>>, input)

\* ignore_whitespace with a fault: at most one space is consumed.
IgnoreOneSpace(input) ==
    IF MatchSpace(input).ok THEN MatchSpace(input).rest ELSE input

\* ignore_whitespace
RECURSIVE IgnoreWhitespace(_)
IgnoreWhitespace(input) ==
    IF MatchSpace(input).ok THEN IgnoreWhitespace(MatchSpace(input).rest) ELSE input

\* match_until_literal("\"").parse(input)
MatchUntilLiteral(b, input) ==
    LET index == Find(input, b)
    IN  IF index >= 0
        THEN POk(Slice(input, index, Len(input)), Slice(input, 0, index))
        ELSE PErr(input)

IsIdentStart(c) == IsAlphabetic(c) \/ c = "_" \/ c = "@"
IsIdentChar(c) == IsAlphanumeric(c) \/ c = "_" \/ c = "@"

\* The for loop of identifier: the offset of the last character of the
\* leading run of identifier characters (i walks char_indices).
RECURSIVE IdentScan(_, _, _)
IdentScan(input, i, index) ==
    IF i >= Len(input) THEN index
    ELSE IF IsIdentChar(input[i + 1])
         THEN IdentScan(input, i + LenUtf8(input[i + 1]), i)
         ELSE index

\* identifier
Identifier(input) ==
    IF Len(input) = 0 \/ ~IsIdentStart(input[1]) THEN PErr(input)
    ELSE LET index == IdentScan(input, 0, 0)
         IN  IF SliceOk(input, index + 1, Len(input)) /\ SliceOk(input, 0, index + 1)
             THEN POk(Slice(input, index + 1, Len(input)), Slice(input, 0, index + 1))
             ELSE PPanic

\* string_literal
StringLiteral(input) ==
    LET q1 == MatchLiteral(<<Quote>>, input)
    IN  IF ~q1.ok THEN q1
        ELSE LET body == MatchUntilLiteral(Quote, q1.rest)
             IN  IF ~body.ok THEN body
                 ELSE LET q2 == MatchLiteral(<<Quote>>, body.rest)
                      IN  IF ~q2.ok THEN q2 ELSE POk(q2.rest, body.out)

\* is_empty_or_comment
IsEmptyOrComment(input) ==
    input = <<>> \/ MatchLiteral(<<Slash, Slash>>, input).ok

(***************************************************************************)
(* src/parser.rs: the typed state machine.  A MaybeTransition is Next of a *)
(* parser state, Done of an Option<ConfigItem>, or Err of a message with   *)
(* the slice it reports; a panic of a slice is kept apart.                 *)
(***************************************************************************)
NoFields == [input |-> <<>>, cvar |-> <<>>, key |-> <<>>]
TNext(name, input, cvar, key) ==
    [t |-> "Next", st |-> name, f |-> [input |-> input, cvar |-> cvar, key |-> key],
     ci |-> <<>>, msg |-> ""]
TDone(ci) == [t |-> "Done", st |-> "", f |-> NoFields, ci |-> ci, msg |-> ""]
TErr(msg, i) ==
    [t |-> "Err", st |-> "", f |-> [input |-> i, cvar |-> <<>>, key |-> <<>>],
     ci |-> <<>>, msg |-> msg]
TPanic == [t |-> "Panic", st |-> "", f |-> NoFields, ci |-> <<>>, msg |-> ""]

\* Option<ConfigItem>
None == <<"None">>
Some(item) == <<"Some", item>>

\* init with a fault: the line is cut at the first "//", quoted or not.
RECURSIVE CutAtComment(_, _)
CutAtComment(s, i) ==
    IF i + 2 > Len(s) THEN s
    ELSE IF s[i + 1] = Slash /\ s[i + 2] = Slash THEN SubSeq(s, 1, i)
    ELSE CutAtComment(s, i + 1)

IdentInitNaiveComment(input0) ==
    LET input == CutAtComment(IgnoreWhitespace(input0), 0)
    IN  IF IsEmptyOrComment(input) THEN TDone(None)
        ELSE TNext("IdentParser", input, <<>>, <<>>)

\* State::<IdentParser>::init
IdentInit(input0) ==
    LET input == IgnoreWhitespace(input0)
    IN  IF IsEmptyOrComment(input) THEN TDone(None)
        ELSE TNext("IdentParser", input, <<>>, <<>>)

\* State<IdentParser>::next
IdentNext(s) ==
    LET r == Identifier(s.input)
    IN  IF r.panic THEN TPanic
        ELSE IF ~r.ok THEN TErr("invalid identifier", r.rest)
        ELSE LET input == IgnoreWhitespace(r.rest)
             IN  IF IsEmptyOrComment(input) THEN TDone(Some(Command(r.out)))
                 ELSE TNext("CvarParser", input, r.out, <<>>)

\* State<CvarParser>::next
CvarNext(s) ==
    LET r == StringLiteral(s.input)
    IN  IF ~r.ok THEN TErr("invalid string literal", r.rest)
        ELSE LET input == IgnoreWhitespace(r.rest)
             IN  IF IsEmptyOrComment(input) THEN TDone(Some(Cvar(s.cvar, r.out)))
                 ELSE TNext("BindParser", input, s.cvar, r.out)

\* State<BindParser>::next with a fault: the command word is not compared
\* with "bind".
BindNextAnyCommand(s) ==
    LET r == StringLiteral(s.input)
    IN  IF ~r.ok THEN TErr("invalid string literal", r.rest)
        ELSE LET input == IgnoreWhitespace(r.rest)
             IN  IF IsEmptyOrComment(input) THEN TDone(Some(Bind(s.key, r.out)))
                 ELSE TErr("invalid end of line", input)

\* State<BindParser>::next (s.cvar is the field bind_command)
BindNext(s) ==
    IF s.cvar # BindWord THEN TErr("expected command 'bind'", s.input)
    ELSE LET r == StringLiteral(s.input)
         IN  IF ~r.ok THEN TErr("invalid string literal", r.rest)
             ELSE LET input == IgnoreWhitespace(r.rest)
                  IN  IF IsEmptyOrComment(input) THEN TDone(Some(Bind(s.key, r.out)))
                      ELSE TErr("invalid end of line", input)

\* MaybeTransition::map / map_result: f is applied to a Next only.
StepOf(tr) ==
    CASE tr.st = "IdentParser" -> IdentNext(tr.f)
      [] tr.st = "CvarParser" -> CvarNext(tr.f)
      [] tr.st = "BindParser" -> BindNext(tr.f)

\* parse_line: init, then the three next steps.
ParseLine(l) ==
    LET t0 == IdentInit(l)
        t1 == IF t0.t = "Next" THEN StepOf(t0) ELSE t0
        t2 == IF t1.t = "Next" THEN StepOf(t1) ELSE t1
        t3 == IF t2.t = "Next" THEN StepOf(t2) ELSE t2
    IN  t3

(***************************************************************************)
(* src/lib.rs: the merge's own ConfigItem and line parser.                 *)
(***************************************************************************)
Cmd(cmd) == <<"lib::Cmd", cmd>>
CmdWithArgs(cmd, arg1, arg2) == <<"lib::CmdWithArgs", cmd, arg1, arg2>>
LibCvar(cvar, val) == <<"lib::Cvar", cvar, val>>
Empty == <<"lib::Empty">>

\* char::is_whitespace, for the bytes of the model.
IsWhitespace(c) == c \in {Space, Newline, "\t"}

\* str::trim
RECURSIVE TrimStart(_)
TrimStart(s) ==
    IF s # <<>> /\ IsWhitespace(s[1]) THEN TrimStart(Tail(s)) ELSE s

RECURSIVE TrimEnd(_)
TrimEnd(s) ==
    IF s # <<>> /\ IsWhitespace(s[Len(s)]) THEN TrimEnd(SubSeq(s, 1, Len(s) - 1)) ELSE s

Trim(s) == TrimEnd(TrimStart(s))

\* The for loop of parse_config_line over line.char_indices(): index is the
\* offset of the current character; the result is the parts pushed and the
\* final start, or a panic of &line[index + 1..index + 2].
RECURSIVE ScanParts(_, _, _, _, _)
ScanParts(l, index, parsing_quotes, start, parts) ==
    IF index >= Len(l) THEN [panic |-> FALSE, parts |-> parts, start |-> start]
    ELSE LET c == l[index + 1]
             next == index + LenUtf8(c)
         IN  IF ~parsing_quotes /\ c = Quote
             THEN ScanParts(l, next, TRUE, start, parts)
             ELSE IF ~parsing_quotes /\ c = Space
             THEN IF SliceOk(l, start, index)
                  THEN ScanParts(l, next, parsing_quotes, index + 1,
                                 Append(parts, Slice(l, start, index)))
                  ELSE [panic |-> TRUE, parts |-> parts, start |-> start]
             ELSE IF ~parsing_quotes /\ c = Slash
             THEN IF ~SliceOk(l, index + 1, index + 2)
                  THEN [panic |-> TRUE, parts |-> parts, start |-> start]
                  ELSE IF Slice(l, index + 1, index + 2) = <<Slash>>
                  THEN [panic |-> FALSE, parts |-> parts, start |-> start]
                  ELSE ScanParts(l, next, parsing_quotes, start, parts)
             ELSE IF parsing_quotes /\ c = Quote
             THEN ScanParts(l, next, FALSE, start, parts)
             ELSE ScanParts(l, next, parsing_quotes, start, parts)

COk(item) == [kind |-> "Ok", item |-> item]
CErr == [kind |-> "Err", item |-> <<>>]
CPanic == [kind |-> "Panic", item |-> <<>>]

\* parse_config_line
ParseConfigLine(line0) ==
    LET l == Trim(line0)
    IN  IF l = <<>> THEN COk(Empty)
        ELSE LET sc == ScanParts(l, 0, FALSE, 0, <<>>)
             IN  IF sc.panic \/ ~SliceOk(l, sc.start, Len(l)) THEN CPanic
                 ELSE LET parts == Append(sc.parts, Slice(l, sc.start, Len(l)))
                      IN  CASE Len(parts) = 1 -> COk(Cmd(parts[1]))
                            [] Len(parts) = 2 -> COk(LibCvar(parts[1], parts[2]))
                            [] Len(parts) = 3 ->
                                  COk(CmdWithArgs(parts[1], parts[2], parts[3]))
                            [] OTHER -> CErr

(***************************************************************************)
(* Input lines.  A free line is any string of at most MaxChars characters; *)
(* a token line is an identifier, up to two quoted arguments and a         *)
(* trailer, with 0..MaxSpaces spaces at each of the four gaps.             *)
(***************************************************************************)
Chars ==
    {<<"a">>, <<"1">>, <<"_">>, <<"@">>, <<Slash>>, <<Quote>>, <<Space>>, <<Lead2, Cont2>>}

RECURSIVE StringsUpTo(_)
StringsUpTo(n) ==
    IF n = 0 THEN {<<>>}
    ELSE LET shorter == StringsUpTo(n - 1)
         IN  shorter \cup {s \o c : s \in shorter, c \in Chars}

Idents == {BindWord, <<"a">>, BindWord \o <<"1">>, <<"_", "@">>, <<Lead2, Cont2, "a">>}
ArgContents ==
    {<<>>, <<"a", Space, "b">>, <<Slash, Slash>>, <<"a", Slash, Slash>>, <<Slash, Slash, "a">>,
     <<Lead2, Cont2>>}
CommentTrailer == <<Slash, Slash, "c">>
Trailers == {<<>>, CommentTrailer, <<"x">>, <<Slash>>}
ArgLists == {<<>>} \cup {<<a>> : a \in ArgContents}
                \cup {<<a, b>> : a \in ArgContents, b \in ArgContents}

RECURSIVE Spaces(_)
Spaces(n) == IF n = 0 THEN <<>> ELSE <<Space>> \o Spaces(n - 1)

Quoted(a) == <<Quote>> \o a \o <<Quote>>

\* The line of the tokens tk with sp[1] spaces before the identifier, sp[2]
\* before the first argument, sp[3] before the second and sp[4] after the
\* last token.
Render(tk, sp) ==
    Spaces(sp[1]) \o tk.ident
        \o (IF Len(tk.args) >= 1 THEN Spaces(sp[2]) \o Quoted(tk.args[1]) ELSE <<>>)
        \o (IF Len(tk.args) >= 2 THEN Spaces(sp[3]) \o Quoted(tk.args[2]) ELSE <<>>)
        \o Spaces(sp[4]) \o tk.trailer

Tokens == [ident : Idents, args : ArgLists, trailer : Trailers, free : {FALSE}]
FreeLine == [ident |-> <<>>, args |-> <<>>, trailer |-> <<>>, free |-> TRUE]
Spacings == [1..4 -> 0..MaxSpaces]

Start == [t |-> "Start", st |-> "", f |-> NoFields, ci |-> <<>>, msg |-> ""]
Pending == [kind |-> "Pending", item |-> <<>>]

IdleParse == line = <<>> /\ toks = FreeLine /\ state = Start /\ cfg_result = Pending
IdleMerge ==
    /\ target_file = <<>> /\ patch_file = <<>> /\ target_before = <<>> /\ mpc = "idle"
    /\ rest_lines = <<>> /\ patch_lookup = {} /\ new_contents = <<>>
IdleCmp ==
    /\ ca = <<>> /\ cb = <<>> /\ r_eq = <<>> /\ r_cmp = <<>> /\ r_pcmp = <<>>
    /\ r_hash = <<>>

(***************************************************************************)
(* The line parsers applied to one line.                                   *)
(***************************************************************************)
ParseInit ==
    /\ \/ /\ line \in StringsUpTo(MaxChars)
          /\ toks = FreeLine
       \/ \E tk \in Tokens, sp \in Spacings :
             /\ line = Render(tk, sp)
             /\ toks = tk
    /\ state = Start
    /\ cfg_result = Pending
    /\ IdleMerge
    /\ IdleCmp

\* parse_line: State::<IdentParser>::init(line)
CallInit ==
    /\ state.t = "Start"
    /\ state' = IdentInit(line)
    /\ UNCHANGED <<line, toks, cfg_result, merge_vars, cmp_vars>>

\* .map(|s| s.next()) on a Next(State<IdentParser>)
CallIdentNext ==
    /\ state.t = "Next" /\ state.st = "IdentParser"
    /\ state' = IdentNext(state.f)
    /\ UNCHANGED <<line, toks, cfg_result, merge_vars, cmp_vars>>

\* .map(|s| s.next()) on a Next(State<CvarParser>)
CallCvarNext ==
    /\ state.t = "Next" /\ state.st = "CvarParser"
    /\ state' = CvarNext(state.f)
    /\ UNCHANGED <<line, toks, cfg_result, merge_vars, cmp_vars>>

\* .map_result(|s| s.next()) on a Next(State<BindParser>)
CallBindNext ==
    /\ state.t = "Next" /\ state.st = "BindParser"
    /\ state' = BindNext(state.f)
    /\ UNCHANGED <<line, toks, cfg_result, merge_vars, cmp_vars>>

\* parse_config_line(line), once parse_line has returned or panicked
CallParseConfigLine ==
    /\ state.t \in {"Done", "Err", "Panic"}
    /\ cfg_result = Pending
    /\ cfg_result' = ParseConfigLine(line)
    /\ UNCHANGED <<line, toks, state, merge_vars, cmp_vars>>

ParseNext ==
    \/ CallInit
    \/ CallIdentNext
    \/ CallCvarNext
    \/ CallBindNext
    \/ CallParseConfigLine

SpecParse == ParseInit /\ [][ParseNext]_vars

(***************************************************************************)
(* Properties of the line parsers.                                         *)
(***************************************************************************)
Returned == state.t \in {"Done", "Err", "Panic"}
IsStatement(tr) == tr.t = "Done" /\ tr.ci # None
TokenLine == ~toks.free
CommentOrNothing == toks.trailer \in {<<>>, CommentTrailer}

\* The error messages of State<BindParser>::next that the error taxonomy
\* calls UnexpectedEndOfLine.
UnexpectedEndOfLine == {"expected command 'bind'", "invalid end of line"}

RECURSIVE HasComment(_)
HasComment(v) ==
    Len(v) >= 2 /\ (StartsWith(v, <<Slash, Slash>>) \/ HasComment(Tail(v)))

\* The tokens of toks with one space between them and nothing after them.
Canonical == Render([toks EXCEPT !.trailer = <<>>], <<0, 1, 1, 0>>)

\* C4: every statement S that parse_line returns is parsed back from the line
\* write_string(S) writes, with its trailing newline removed, as a statement
\* of the same variant, identity and payload.
C4_RoundTrip ==
    IsStatement(state) =>
        LET S == state.ci[2]
            written == WriteString(S)
        IN  /\ written[Len(written)] = Newline
            /\ ParseLine(SubSeq(written, 1, Len(written) - 1)) = TDone(Some(S))

C4_Witness ==
    /\ IsStatement(state)
    /\ state.ci[2][1] = "Bind"
    /\ state.ci[2][3] = <<Slash, Slash, "a">>
    /\ line # SubSeq(WriteString(state.ci[2]), 1, Len(WriteString(state.ci[2])) - 1)

C7_SpacingInsensitive ==
    (Returned /\ TokenLine /\ CommentOrNothing) =>
        LET canon == ParseLine(Canonical)
        IN  (IsStatement(canon) \/ IsStatement(state)) => state = canon

C7_Witness ==
    /\ Returned /\ TokenLine /\ IsStatement(state)
    /\ toks.trailer = CommentTrailer
    /\ Len(toks.args) = 2
    /\ line = Render(toks, <<2, 0, 2, 0>>)

\* C8: parse_line and parse_config_line return for every line; neither
\* panics.
C8_AlwaysReturns == state.t # "Panic" /\ cfg_result.kind # "Panic"

(***************************************************************************)
(* src/lib.rs: apply_patch.  A file is its bytes; the HashMap patch_lookup *)
(* is its set of <<key, value>> entries, one per key.                      *)
(***************************************************************************)
\* str::lines / BufRead::lines: the pieces between "\n" bytes.
RECURSIVE Lines(_)
Lines(contents) ==
    IF contents = <<>> THEN <<>>
    ELSE LET i == Find(contents, Newline)
         IN  IF i < 0 THEN <<contents>>
             ELSE <<Slice(contents, 0, i)>> \o Lines(Slice(contents, i + 1, Len(contents)))

\* ConfigItem::push_to_string
PushToString(item, string) ==
    string \o
    (CASE item[1] = "lib::Cmd" -> item[2]
       [] item[1] = "lib::CmdWithArgs" ->
             item[2] \o <<Space>> \o item[3] \o <<Space>> \o item[4]
       [] item[1] = "lib::Cvar" -> item[2] \o <<Space>> \o item[3]
       [] item[1] = "lib::Empty" -> <<>>)
    \o <<Newline>>

\* HashMap::insert
Insert(map, k, v) == {e \in map : e[1] # k} \cup {<<k, v>>}
\* HashMap::remove: the map left, and the value removed or the default.
Remove(map, k) == {e \in map : e[1] # k}
RemoveUnwrapOr(map, k, default) ==
    IF \E e \in map : e[1] = k THEN (CHOOSE e \in map : e[1] = k)[2] ELSE default

Q(a) == Quoted(<<a>>)
MergeLines ==
    { <<"a">>, <<"b">>,
      <<"v", Space>> \o Q("1"), <<"v", Space>> \o Q("2"),
      BindWord \o <<Space>> \o Q("k") \o <<Space>> \o Q("x"),
      BindWord \o <<Space>> \o Q("j") \o <<Space>> \o Q("y"),
      <<"v", Space, "1">>,
      <<"a", Space, "b", Space, "c", Space, "d">>,
      <<"a", Space, Slash>>,
      <<>> }

RECURSIVE FilesUpTo(_)
FilesUpTo(n) ==
    IF n = 0 THEN {<<>>}
    ELSE LET shorter == FilesUpTo(n - 1)
         IN  shorter \cup {f \o l \o <<Newline>> : f \in shorter, l \in MergeLines}

MergeInit ==
    /\ target_file \in FilesUpTo(MaxTargetLines)
    /\ patch_file \in FilesUpTo(MaxPatchLines)
    /\ target_before = target_file
    /\ mpc = "read_patch"
    /\ rest_lines = <<>>
    /\ patch_lookup = {}
    /\ new_contents = <<>>
    /\ IdleParse
    /\ IdleCmp

\* patch_file.read_to_string(&mut patch_contents); patch_contents.lines()
ReadPatch ==
    /\ mpc = "read_patch"
    /\ rest_lines' = Lines(patch_file)
    /\ mpc' = "patch_loop"
    /\ UNCHANGED <<target_file, patch_file, target_before, patch_lookup, new_contents,
                   parse_vars, cmp_vars>>

\* One pass of the loop over the patch's lines; after the last one, the
\* target is opened for reading.
PatchLine ==
    /\ mpc = "patch_loop"
    /\ IF rest_lines = <<>>
       THEN /\ mpc' = "target_loop"
            /\ rest_lines' = Lines(target_file)
            /\ new_contents' = <<>>
            /\ UNCHANGED patch_lookup
       ELSE LET r == ParseConfigLine(Head(rest_lines))
            IN  /\ mpc' = CASE r.kind = "Ok" -> "patch_loop"
                            [] r.kind = "Err" -> "err"
                            [] r.kind = "Panic" -> "panic"
                /\ rest_lines' = Tail(rest_lines)
                /\ patch_lookup' =
                      IF r.kind = "Ok" /\ r.item # Empty
                      THEN Insert(patch_lookup, r.item[2], r.item)
                      ELSE patch_lookup
                /\ UNCHANGED new_contents
    /\ UNCHANGED <<target_file, patch_file, target_before, parse_vars, cmp_vars>>

\* One pass of the loop over the target's lines.
TargetLine ==
    /\ mpc = "target_loop"
    /\ IF rest_lines = <<>>
       THEN /\ mpc' = "drain"
            /\ UNCHANGED <<rest_lines, patch_lookup, new_contents>>
       ELSE LET r == ParseConfigLine(Head(rest_lines))
            IN  /\ mpc' = CASE r.kind = "Ok" -> "target_loop"
                            [] r.kind = "Err" -> "err"
                            [] r.kind = "Panic" -> "panic"
                /\ rest_lines' = Tail(rest_lines)
                /\ IF r.kind = "Ok" /\ r.item # Empty
                   THEN /\ new_contents' =
                              PushToString(RemoveUnwrapOr(patch_lookup, r.item[2], r.item),
                                           new_contents)
                        /\ patch_lookup' = Remove(patch_lookup, r.item[2])
                   ELSE /\ new_contents' =
                              IF r.kind = "Ok" THEN PushToString(r.item, new_contents)
                              ELSE new_contents
                        /\ UNCHANGED patch_lookup
    /\ UNCHANGED <<target_file, patch_file, target_before, parse_vars, cmp_vars>>

\* for (_, value) in patch_lookup: the HashMap yields its entries in an order
\* of its own.
DrainLookup ==
    /\ mpc = "drain"
    /\ IF patch_lookup = {}
       THEN /\ mpc' = "truncate"
            /\ UNCHANGED <<patch_lookup, new_contents>>
       ELSE \E e \in patch_lookup :
               /\ new_contents' = PushToString(e[2], new_contents)
               /\ patch_lookup' = patch_lookup \ {e}
               /\ UNCHANGED mpc
    /\ UNCHANGED <<target_file, patch_file, target_before, rest_lines, parse_vars, cmp_vars>>

\* OpenOptions::new().write(true).truncate(true).open(&target)
OpenTruncate ==
    /\ mpc = "truncate"
    /\ target_file' = <<>>
    /\ mpc' = "write"
    /\ UNCHANGED <<patch_file, target_before, rest_lines, patch_lookup, new_contents,
                   parse_vars, cmp_vars>>

\* target_file.write_all(new_contents.as_bytes()); Ok(())
WriteAll ==
    /\ mpc = "write"
    /\ target_file' = new_contents
    /\ mpc' = "ok"
    /\ UNCHANGED <<patch_file, target_before, rest_lines, patch_lookup, new_contents,
                   parse_vars, cmp_vars>>

MergeNext ==
    \/ ReadPatch
    \/ PatchLine
    \/ TargetLine
    \/ DrainLookup
    \/ OpenTruncate
    \/ WriteAll

SpecMerge == MergeInit /\ [][MergeNext]_vars

(***************************************************************************)
(* Properties of the merge.  The statements of a file are those parse_line *)
(* reads from its lines.                                                   *)
(***************************************************************************)
Range(f) == {f[i] : i \in DOMAIN f}
Identity(item) == <<item[1], item[2]>>
Statements(file) ==
    {ParseLine(l).ci[2] : l \in {x \in Range(Lines(file)) : IsStatement(ParseLine(x))}}
Identities(file) == {Identity(x) : x \in Statements(file)}
Malformed(l) == ParseLine(l).t # "Done"
InputsParse ==
    \A l \in Range(Lines(target_before)) \cup Range(Lines(patch_file)) : ~Malformed(l)

\* The last statement of the file with the identity id.
LastWith(file, id) ==
    LET ls == Lines(file)
        at == {i \in DOMAIN ls :
                  IsStatement(ParseLine(ls[i])) /\ Identity(ParseLine(ls[i]).ci[2]) = id}
    IN  ParseLine(ls[CHOOSE i \in at : \A j \in at : j <= i]).ci[2]

\* C1: when every line of the target and of the patch parses, the result
\* holds the patch's statement for each (variant, identity) of the patch and
\* the target's own statement for each (variant, identity) of the target that
\* the patch does not have.
C1_PatchOverridesTarget ==
    (mpc = "ok" /\ InputsParse) =>
        /\ \A id \in Identities(patch_file) :
              \E o \in Statements(target_file) :
                 Identity(o) = id /\ o \in Statements(patch_file)
        /\ \A id \in Identities(target_before) \ Identities(patch_file) :
              \E o \in Statements(target_file) :
                 Identity(o) = id /\ o \in Statements(target_before)

\* C2: the emitted lines are in the order of ConfigItem's Ord: Commands, then
\* Binds, then Cvars, each group ascending by identity.
C2_OutputOrder ==
    (mpc = "ok" /\ InputsParse) =>
        LET out == Lines(target_file)
        IN  \A i, j \in DOMAIN out :
               (i < j /\ IsStatement(ParseLine(out[i])) /\ IsStatement(ParseLine(out[j])))
                  => Cmp(ParseLine(out[i]).ci[2], ParseLine(out[j]).ci[2]) # "Greater"

\* C3: when a line of the target or of the patch is malformed, the operation
\* does not succeed and the target file keeps the content it had.
C3_AtomicFailure ==
    ~InputsParse => (mpc # "ok" /\ target_file = target_before)

\* C9: the result holds at most one statement for each (variant, identity);
\* of several target lines with one identity that the patch does not have
\* the last is kept, and of several patch lines the last.
C9_OnePerIdentity ==
    (mpc = "ok" /\ InputsParse) =>
        LET out == Lines(target_file)
        IN  /\ \A i, j \in DOMAIN out :
                  (i # j /\ IsStatement(ParseLine(out[i])) /\ IsStatement(ParseLine(out[j])))
                     => Identity(ParseLine(out[i]).ci[2]) # Identity(ParseLine(out[j]).ci[2])
            /\ \A o \in Statements(target_file) :
                  IF Identity(o) \in Identities(patch_file)
                  THEN o = LastWith(patch_file, Identity(o))
                  ELSE o = LastWith(target_before, Identity(o))

(***************************************************************************)
(* src/config.rs: eq, cmp, partial_cmp and hash applied to two items.      *)
(***************************************************************************)
Names == {<<"a">>, <<"b">>, <<"a", "b">>}
Payloads == {<<"1">>, <<"2">>}
Items ==
    {Command(n) : n \in Names}
        \cup {Bind(k, b) : k \in Names, b \in Payloads}
        \cup {Cvar(k, v) : k \in Names, v \in Payloads}

CmpInit ==
    /\ ca \in Items
    /\ cb \in Items
    /\ r_eq = <<>> /\ r_cmp = <<>> /\ r_pcmp = <<>> /\ r_hash = <<>>
    /\ IdleParse
    /\ IdleMerge

CallEq ==
    /\ r_eq = <<>>
    /\ r_eq' = <<Eq(ca, cb)>>
    /\ UNCHANGED <<ca, cb, r_cmp, r_pcmp, r_hash, parse_vars, merge_vars>>

CallCmp ==
    /\ r_cmp = <<>>
    /\ r_cmp' = <<Cmp(ca, cb)>>
    /\ UNCHANGED <<ca, cb, r_eq, r_pcmp, r_hash, parse_vars, merge_vars>>

CallPartialCmp ==
    /\ r_pcmp = <<>>
    /\ r_pcmp' = <<PartialCmp(ca, cb)>>
    /\ UNCHANGED <<ca, cb, r_eq, r_cmp, r_hash, parse_vars, merge_vars>>

CallHash ==
    /\ r_hash = <<>>
    /\ r_hash' = <<Hash(ca), Hash(cb)>>
    /\ UNCHANGED <<ca, cb, r_eq, r_cmp, r_pcmp, parse_vars, merge_vars>>

CmpNext ==
    \/ CallEq
    \/ CallCmp
    \/ CallPartialCmp
    \/ CallHash

SpecCmp == CmpInit /\ [][CmpNext]_vars

\* C10: a == b exactly when the variant and the identity agree, cmp is Equal
\* exactly when a == b, and equal items feed the hasher the same bytes.
C10_EqOrdHashAgree ==
    (r_eq # <<>> /\ r_cmp # <<>> /\ r_hash # <<>>) =>
        /\ r_eq[1] = (Identity(ca) = Identity(cb))
        /\ (r_cmp[1] = "Equal") = r_eq[1]
        /\ r_eq[1] => r_hash[1] = r_hash[2]

====
